---- MODULE Spec2Model ----
(***************************************************************************)
(* Model of the check execution and status aggregation engine of           *)
(* go-healthcheck: HealthCheck.Execute fans one goroutine out per          *)
(* registered check, collects one message per check from a buffered        *)
(* channel and folds the statuses of all results into one overall status.  *)
(***************************************************************************)
EXTENDS Integers, Sequences, FiniteSets, TLC

\* ------------------------------------------------------------------ bounds
MaxChecks == 2      \* registry entries
MaxOut == 2         \* results returned by one Run

\* ------------------------------------------------------- checks.Status
StatusPass == "pass"
StatusFail == "fail"
StatusWarn == "warn"

Statuses == {StatusPass, StatusWarn, StatusFail}

\* checks.Result, reduced to the fields the aggregation reads or relocates.
Result(s, o) == [Status |-> s, Output |-> o]

Results == {Result(StatusPass, ""), Result(StatusWarn, "high"), Result(StatusFail, "down")}

RECURSIVE SeqsUpTo(_, _)
SeqsUpTo(S, k) ==
    IF k = 0 THEN {<<>>}
    ELSE LET shorter == SeqsUpTo(S, k - 1)
         IN shorter \cup {Append(q, x) : q \in {r \in shorter : Len(r) = k - 1}, x \in S}

\* The slices a Run may hand back; the empty one is what diskcheck's Run
\* returns for a check built with WithPaths().
ResultSeqs == SeqsUpTo(Results, MaxOut)

Names == {"a", "b"}

\* checks.Check: GetName() and the behaviour of Run(ctx).
\*   returns : Run returns out
\*   waits   : Run blocks on I/O until ctx is cancelled, then returns out
\*   panics  : Run panics
Check(nm, o, md) == [name |-> nm, out |-> o, mode |-> md]

CheckSet ==
    {Check(nm, o, "returns") : nm \in Names, o \in ResultSeqs}
    \cup {Check(nm, <<Result(StatusFail, "down")>>, "waits") : nm \in Names}
    \cup {Check(nm, <<>>, "panics") : nm \in Names}

VARIABLES
    Checks,      \* h.Checks
    pc,          \* position of the caller: idle, spawn, collect, done, crashed
    cancelled,   \* ctx.Done() is closed
    rng,         \* the slice the spawn loop ranges over
    i,           \* index of the next element of rng
    cap,         \* cap(resultsChan)
    workers,     \* the goroutines started by this call
    runs,        \* number of Run invocations per registry index
    resultsChan, \* buffered messages
    need,        \* iterations of the collect loop
    n,           \* iterations of the collect loop done
    results,     \* results map
    status,      \* status local
    ret,         \* the value Execute returned
    meta,        \* h.ServiceID, h.Description, h.Version, h.ReleaseID
    resp,        \* what the HTTP handler wrote
    prev,        \* the overall status the call before this one returned
    probe,       \* a check run on its own: its configuration and what Run returned
    health,      \* a Health of the first API: Status, Checks, checkProviders
    frames       \* the frames of Execute calls that overlap in time

vars == <<Checks, pc, cancelled, rng, i, cap, workers, runs, resultsChan,
          need, n, results, status, ret, meta, resp, prev, probe, health, frames>>

\* The state outside the frame of Execute.
apart == <<probe, health, frames>>

ext == <<meta, resp, prev, apart>>

\* ----------------------------------------------------------------- Go maps
EmptyFcn == [k \in {} |-> <<>>]
NilMap == [nil |-> TRUE, m |-> EmptyFcn]
\* A map declared and never made.
MakeMapNil == NilMap

MakeMap == [nil |-> FALSE, m |-> EmptyFcn]

MapGet(mp, k) == IF k \in DOMAIN mp.m THEN mp.m[k] ELSE <<>>

MapSet(mp, k, v) ==
    [nil |-> FALSE, m |-> [x \in (DOMAIN mp.m) \cup {k} |-> IF x = k THEN v ELSE mp.m[x]]]

NoReturn == [returned |-> FALSE]

\* The zero value of the four metadata fields.
NoMeta == [ServiceID |-> "", Description |-> "", Version |-> "", ReleaseID |-> ""]

\* Nothing written to the http.ResponseWriter yet.
NoResp == [written |-> FALSE]

\* No call has returned yet.
NoPrev == [returned |-> FALSE]

\* No check has been run on its own.
NoProbe == [kind |-> "none"]

\* healthcheck.New of the first API: status pass, no checks, no providers.
\* gets counts the calls of Get; last holds what each provider's Execute
\* returned in the latest of them.
NewHealth ==
    [Status |-> "pass", Checks |-> EmptyFcn, checkProviders |-> <<>>,
     gets |-> 0, last |-> <<>>]

\* No overlapping Execute calls.
NoFrames == <<>>

Init ==
    /\ Checks = <<>>
    /\ pc = "idle"
    /\ cancelled = FALSE
    /\ rng = <<>>
    /\ i = 1
    /\ cap = 0
    /\ workers = <<>>
    /\ runs = <<>>
    /\ resultsChan = <<>>
    /\ need = 0
    /\ n = 0
    /\ results = NilMap
    /\ status = StatusPass
    /\ ret = NoReturn
    /\ meta = NoMeta
    /\ resp = NoResp
    /\ prev = NoPrev
    /\ probe = NoProbe
    /\ health = NewHealth
    /\ frames = NoFrames

locals == <<cancelled, rng, i, cap, workers, runs, resultsChan, need, n, results, status, ret>>

AddCheck(c) ==
    /\ pc = "idle"
    /\ Len(Checks) < MaxChecks
    /\ Checks' = Append(Checks, c)
    /\ UNCHANGED <<pc, locals, ext>>

\* ------------------------------------------------------ HealthCheck.Execute
\* resultsChan := make(chan resultCollector, len(h.Checks))
Execute ==
    /\ pc = "idle"
    /\ pc' = "spawn"
    /\ cap' = Len(Checks)
    /\ rng' = Checks
    /\ i' = 1
    /\ runs' = [k \in 1..Len(Checks) |-> 0]
    /\ UNCHANGED <<Checks, cancelled, workers, resultsChan, need, n, results, status, ret, ext>>

\* go func(c checks.Check) {...}(check): one goroutine per element.
Spawned(c, idx) == <<[c |-> c, idx |-> idx, st |-> "new"]>>

\* The checks run one after the other: a goroutine is started only when the
\* one before it has sent its result.
SpawnSequential ==
    /\ pc = "spawn"
    /\ i <= Len(rng)
    /\ \A w \in 1..Len(workers) : workers[w].st = "sent"
    /\ workers' = workers \o Spawned(rng[i], i)
    /\ i' = i + 1
    /\ UNCHANGED <<Checks, pc, cancelled, rng, cap, runs, resultsChan, need, n, results, status, ret, ext>>

Spawn ==
    /\ pc = "spawn"
    /\ i <= Len(rng)
    /\ workers' = workers \o Spawned(rng[i], i)
    /\ i' = i + 1
    /\ UNCHANGED <<Checks, pc, cancelled, rng, cap, runs, resultsChan, need, n, results, status, ret, ext>>

\* One receive more than there are checks.
LoopCountPlusOne(cs) == Len(cs) + 1

\* for range h.Checks: the number of receives.
LoopCount(cs) == Len(cs)

\* The status local takes over what the call before left behind.
NewStatusKept(p) == IF p.returned THEN p.Status ELSE StatusPass

\* status := checks.StatusPass, whatever the call before returned.
NewStatus(p) == StatusPass

\* results := make(map[string][]checks.Result); status := checks.StatusPass
StartCollect ==
    /\ pc = "spawn"
    /\ i > Len(rng)
    /\ results' = MakeMap
    /\ status' = NewStatus(prev)
    /\ need' = LoopCount(Checks)
    /\ n' = 0
    /\ pc' = "collect"
    /\ UNCHANGED <<Checks, cancelled, rng, i, cap, workers, runs, resultsChan, ret, ext>>

SetSt(w, s) == [workers EXCEPT ![w].st = s]

\* result := c.Run(ctx), the call.
RunCall(w) ==
    /\ pc \in {"spawn", "collect"}
    /\ w \in 1..Len(workers)
    /\ workers[w].st = "new"
    /\ workers' = SetSt(w, "run")
    /\ runs' = [runs EXCEPT ![workers[w].idx] = @ + 1]
    /\ UNCHANGED <<Checks, pc, cancelled, rng, i, cap, resultsChan, need, n, results, status, ret, ext>>

\* A Run that reported a fail is called again.
AfterRunRetry(c) ==
    IF \E j \in 1..Len(c.out) : c.out[j].Status = StatusFail THEN "new" ELSE "ret"

\* Where the goroutine stands once Run has returned: at the send.
AfterRun(c) == "ret"

\* result := c.Run(ctx), the return.
RunReturn(w) ==
    /\ pc \in {"spawn", "collect"}
    /\ w \in 1..Len(workers)
    /\ workers[w].st = "run"
    /\ \/ workers[w].c.mode = "returns"
       \/ workers[w].c.mode = "waits" /\ cancelled
    /\ workers' = SetSt(w, AfterRun(workers[w].c))
    /\ UNCHANGED <<Checks, pc, cancelled, rng, i, cap, runs, resultsChan, need, n, results, status, ret, ext>>

\* A panic in a goroutine that nothing recovers ends the process.
RunPanic(w) ==
    /\ pc \in {"spawn", "collect"}
    /\ w \in 1..Len(workers)
    /\ workers[w].st = "run"
    /\ workers[w].c.mode = "panics"
    /\ workers' = SetSt(w, "panic")
    /\ pc' = "crashed"
    /\ UNCHANGED <<Checks, cancelled, rng, i, cap, runs, resultsChan, need, n, results, status, ret, ext>>

\* A worker that stays at its send once it has sent, and sends again.
SendAgain(w) ==
    /\ pc \in {"spawn", "collect"}
    /\ w \in 1..Len(workers)
    /\ workers[w].st = "ret"
    /\ Len(resultsChan) < cap
    /\ resultsChan' = Append(resultsChan, [name |-> workers[w].c.name, result |-> workers[w].c.out])
    /\ UNCHANGED <<Checks, pc, cancelled, rng, i, cap, workers, runs, need, n, results, status, ret, ext>>

\* resultsChan <- resultCollector{name: c.GetName(), result: result}
Send(w) ==
    /\ pc \in {"spawn", "collect"}
    /\ w \in 1..Len(workers)
    /\ workers[w].st = "ret"
    /\ Len(resultsChan) < cap
    /\ resultsChan' = Append(resultsChan, [name |-> workers[w].c.name, result |-> workers[w].c.out])
    /\ workers' = SetSt(w, "sent")
    /\ UNCHANGED <<Checks, pc, cancelled, rng, i, cap, runs, need, n, results, status, ret, ext>>

\* The warn branch without its "status != fail" guard.
NextStatusWarnOverridesFail(st, r) ==
    IF r.Status = StatusFail THEN StatusFail
    ELSE IF r.Status = StatusWarn THEN StatusWarn
    ELSE st

\* The last result that is not a fail decides.
NextStatusLastWins(st, r) ==
    IF r.Status = StatusFail THEN StatusFail
    ELSE IF st /= StatusFail THEN r.Status
    ELSE st

\* The warn branch without its status test: any result that is not a fail warns.
NextStatusAnyWarns(st, r) ==
    IF r.Status = StatusFail THEN StatusFail
    ELSE IF st /= StatusFail THEN StatusWarn
    ELSE st

\* The body of "for _, result := range cr.result".
NextStatus(st, r) ==
    IF r.Status = StatusFail THEN StatusFail
    ELSE IF r.Status = StatusWarn /\ st /= StatusFail THEN StatusWarn
    ELSE st

\* The status of the result scanned last is the overall status.
FoldStatusLast(st, rs) == IF rs = <<>> THEN st ELSE rs[Len(rs)].Status

RECURSIVE FoldStatus(_, _)
FoldStatus(st, rs) ==
    IF rs = <<>> THEN st ELSE FoldStatus(NextStatus(st, Head(rs)), Tail(rs))

\* The results of one Run filed last to first.
AppendResultsReversed(old, rs) == old \o [j \in 1..Len(rs) |-> rs[Len(rs) + 1 - j]]

\* The results filed without their output text.
AppendResultsStripped(old, rs) == old \o [j \in 1..Len(rs) |-> [rs[j] EXCEPT !.Output = ""]]

\* The results of a Run filed in front of what the key already holds.
AppendResultsFront(old, rs) == rs \o old

\* append(results[cr.name], cr.result...)
AppendResults(old, rs) == old \o rs

\* One iteration of the collect loop.
Collect ==
    /\ pc = "collect"
    /\ n < need
    /\ resultsChan /= <<>>
    /\ LET cr == Head(resultsChan)
       IN /\ results' = MapSet(results, cr.name, AppendResults(MapGet(results, cr.name), cr.result))
          /\ status' = FoldStatus(status, cr.result)
    /\ resultsChan' = Tail(resultsChan)
    /\ n' = n + 1
    /\ UNCHANGED <<Checks, pc, cancelled, rng, i, cap, workers, runs, need, ret, ext>>

\* The collect loop left at the first fail.
LoopDoneOnFail(k, cnt, st) == k = cnt \/ st = StatusFail

\* The collect loop is over.
LoopDone(k, cnt, st) == k = cnt

\* return CheckRunResult{Status: status, Checks: results}
Finish ==
    /\ pc = "collect"
    /\ LoopDone(n, need, status)
    /\ ret' = [returned |-> TRUE, Status |-> status, Checks |-> results]
    /\ pc' = "done"
    /\ UNCHANGED <<Checks, cancelled, rng, i, cap, workers, runs, resultsChan, need, n, results, status, ext>>

\* The caller has taken the result; the call's frame is gone.
Return ==
    /\ pc = "done"
    /\ pc' = "idle"
    /\ cancelled' = FALSE
    /\ rng' = <<>>
    /\ i' = 1
    /\ cap' = 0
    /\ workers' = <<>>
    /\ runs' = <<>>
    /\ resultsChan' = <<>>
    /\ need' = 0
    /\ n' = 0
    /\ results' = NilMap
    /\ status' = StatusPass
    /\ ret' = NoReturn
    /\ resp' = NoResp
    /\ UNCHANGED <<Checks, meta, prev, apart>>

\* The owner of ctx cancels it while the call is in flight.
Cancel ==
    /\ pc \in {"spawn", "collect"}
    /\ ~cancelled
    /\ cancelled' = TRUE
    /\ UNCHANGED <<Checks, pc, rng, i, cap, workers, runs, resultsChan, need, n, results, status, ret, ext>>

\* ------------------------------------------------------------ HealthHandler
\* http.StatusServiceUnavailable and http.StatusOK
StatusServiceUnavailable == 503
StatusOK == 200

\* Every status but pass answers 503.
HealthHandlerCodeStrict(s) == IF s /= StatusPass THEN StatusServiceUnavailable ELSE StatusOK

\* HealthHandler: WriteHeader(503) for fail, WriteHeader(200) otherwise.
HealthHandlerCode(s) == IF s = StatusFail THEN StatusServiceUnavailable ELSE StatusOK

\* Handler of pkg/health.go: WriteHeader(503) for fail only; without a
\* WriteHeader the first Write of the encoder sends 200.
HandlerCode(s) ==
    LET explicit == IF s = StatusFail THEN <<StatusServiceUnavailable>> ELSE <<>>
    IN IF explicit /= <<>> THEN explicit[1] ELSE StatusOK

\* The segments of one check, a segment for a result without output included.
OutputsOfAll(checkName, rs) == [j \in 1..Len(rs) |-> checkName \o ": " \o rs[j].Output]

\* The inner loop of buildOutput: the segments of one check.
RECURSIVE OutputsOf(_, _)
OutputsOf(checkName, rs) ==
    IF rs = <<>> THEN <<>>
    ELSE (IF Head(rs).Output /= "" THEN <<checkName \o ": " \o Head(rs).Output>> ELSE <<>>)
         \o OutputsOf(checkName, Tail(rs))

\* The outer loop of buildOutput, over the keys in the order the map yields them.
RECURSIVE BuildOutputs(_, _)
BuildOutputs(m, order) ==
    IF order = <<>> THEN <<>>
    ELSE OutputsOf(Head(order), m[Head(order)]) \o BuildOutputs(m, Tail(order))

\* strings.Join
RECURSIVE Join(_, _)
Join(ss, sep) ==
    IF ss = <<>> THEN ""
    ELSE IF Len(ss) = 1 THEN ss[1]
    ELSE ss[1] \o sep \o Join(Tail(ss), sep)

\* The orders in which a range over a map with the keys S may yield them.
KeyOrders(S) ==
    {q \in [1..Cardinality(S) -> S] : \A a, b \in 1..Cardinality(S) : a /= b => q[a] /= q[b]}

\* The handler, after Execute has returned: builds and writes the response.
Respond(order) ==
    /\ pc = "done"
    /\ ~resp.written
    /\ order \in KeyOrders(DOMAIN ret.Checks.m)
    /\ resp' = [written |-> TRUE,
                code |-> HealthHandlerCode(ret.Status),
                codePkg |-> HandlerCode(ret.Status),
                ServiceID |-> meta.ServiceID,
                Description |-> meta.Description,
                Version |-> meta.Version,
                ReleaseID |-> meta.ReleaseID,
                Status |-> ret.Status,
                Checks |-> ret.Checks,
                outputs |-> BuildOutputs(ret.Checks.m, order),
                Output |-> Join(BuildOutputs(ret.Checks.m, order), "; ")]
    /\ UNCHANGED <<Checks, pc, locals, meta, prev, apart>>

WorkerIds == 1..(2 * MaxChecks)

Next ==
    \/ \E c \in CheckSet : AddCheck(c)
    \/ Execute
    \/ Spawn
    \/ StartCollect
    \/ \E w \in WorkerIds : RunCall(w)
    \/ \E w \in WorkerIds : RunReturn(w)
    \/ \E w \in WorkerIds : RunPanic(w)
    \/ \E w \in WorkerIds : Send(w)
    \/ Collect
    \/ Finish
    \/ \E S \in SUBSET Names : \E q \in KeyOrders(S) : Respond(q)
    \/ Return
    \/ Cancel

Spec == Init /\ [][Next]_vars

\* ------------------------------------------------- a sequence of Execute calls
\* A Status value that is none of the three constants.
StatusOther == "error"

\* What a Run hands back in the specification of repeated calls.
SmallSeqs ==
    {<<Result(StatusPass, "")>>, <<Result(StatusWarn, "high")>>, <<Result(StatusFail, "down")>>,
     <<Result(StatusOther, "boom")>>,
     <<Result(StatusPass, ""), Result(StatusWarn, "high")>>,
     <<Result(StatusFail, "down"), Result(StatusPass, "")>>}

SmallCheckSet == {Check(nm, o, "returns") : nm \in Names, o \in SmallSeqs}

\* What check k observes changes between two calls: its next Run returns o.
Perturb(k, o) ==
    /\ pc = "idle"
    /\ k \in 1..Len(Checks)
    /\ o /= Checks[k].out
    /\ Checks' = [Checks EXCEPT ![k].out = o]
    /\ UNCHANGED <<pc, locals, ext>>

\* Return, with the returned overall status remembered for the next call.
ReturnKeep ==
    /\ pc = "done"
    /\ pc' = "idle"
    /\ cancelled' = FALSE
    /\ rng' = <<>>
    /\ i' = 1
    /\ cap' = 0
    /\ workers' = <<>>
    /\ runs' = <<>>
    /\ resultsChan' = <<>>
    /\ need' = 0
    /\ n' = 0
    /\ results' = NilMap
    /\ status' = StatusPass
    /\ ret' = NoReturn
    /\ resp' = NoResp
    /\ prev' = [returned |-> TRUE, Status |-> ret.Status]
    /\ UNCHANGED <<Checks, meta, apart>>

CallsNext ==
    \/ \E c \in SmallCheckSet : AddCheck(c)
    \/ \E k \in 1..MaxChecks : \E o \in SmallSeqs : Perturb(k, o)
    \/ Execute
    \/ Spawn
    \/ StartCollect
    \/ \E w \in WorkerIds : RunCall(w)
    \/ \E w \in WorkerIds : RunReturn(w)
    \/ \E w \in WorkerIds : Send(w)
    \/ Collect
    \/ Finish
    \/ ReturnKeep

CallsSpec == Init /\ [][CallsNext]_vars

\* ------------------------------------------------------- the built-in checks
\* A dependency handed to a built-in check (a redis client, a *sql.DB); NilDep
\* is the nil pointer.  ping and scan are the error texts of the calls ("" for
\* a nil error), actual the value the query's row scans to.
NilDep == [nil |-> TRUE]

Dep(ping, scan, actual) == [nil |-> FALSE, ping |-> ping, scan |-> scan, actual |-> actual]

Deps ==
    {NilDep, Dep("", "", 1), Dep("connection refused", "", 1),
     Dep("", "no rows", 1), Dep("", "", 2)}

\* What a Run hands back, with the calls it made on its dependency.
Ran(o, calls) == [out |-> o, calls |-> calls]

\* redischeck.Check.Run without its nil guard.
RedisRunUnguarded(client) ==
    Ran(<<Result(StatusPass, "")>>, <<"Ping">>)

\* redischeck.Check.Run
RedisRun(client) ==
    IF client.nil
    THEN Ran(<<Result(StatusFail, "Redis client is required")>>, <<>>)
    ELSE IF client.ping /= ""
         THEN Ran(<<Result(StatusFail, "Redis ping failed: " \o client.ping)>>, <<"Ping">>)
         ELSE Ran(<<Result(StatusPass, "")>>, <<"Ping">>)

\* The expected query result of a sqlcheck: none, or a value.
NoExpected == [nil |-> TRUE]

Expected(v) == [nil |-> FALSE, v |-> v]

\* sqlcheck.Check.executeQuery: the error it returns and the result it leaves.
ExecuteQuery(db, expected, result) ==
    IF db.scan /= ""
    THEN [err |-> db.scan, result |-> result]
    ELSE IF ~expected.nil /\ db.actual /= expected.v
         THEN [err |-> "",
               result |-> Result(StatusWarn, "query result does not match expected value")]
         ELSE [err |-> "", result |-> result]

\* sqlcheck.Check.Run
SqlRun(db, query, expected) ==
    IF db.nil
    THEN Ran(<<Result(StatusFail, "database connection is required")>>, <<>>)
    ELSE IF db.ping /= ""
         THEN Ran(<<Result(StatusFail, "database ping failed: " \o db.ping)>>,
                  <<"PingContext">>)
         ELSE IF query /= ""
              THEN LET q == ExecuteQuery(db, expected, Result(StatusPass, ""))
                       called == <<"PingContext", "QueryRowContext">>
                   IN IF q.err /= ""
                      THEN Ran(<<Result(StatusFail, "query execution failed: " \o q.err)>>,
                               called)
                      ELSE IF q.result.Status = StatusPass
                           THEN Ran(<<Result(StatusPass, "database is healthy")>>, called)
                           ELSE Ran(<<q.result>>, called)
              ELSE Ran(<<Result(StatusPass, "database is healthy")>>, <<"PingContext">>)

\* dbcheck.PingCheck.Run; it returns one checks.Result, here a sequence of one.
PingRun(db) ==
    IF db.nil
    THEN Ran(<<Result(StatusFail, "database connection is required")>>, <<>>)
    ELSE IF db.ping /= ""
         THEN Ran(<<Result(StatusFail, "database ping failed: " \o db.ping)>>,
                  <<"PingContext">>)
         ELSE Ran(<<Result(StatusPass, "")>>, <<"PingContext">>)

\* --- diskcheck
MaxPaths == 2       \* paths handed to diskcheck.WithPaths

\* Usage is in whole percents; fmt's %.1f of a whole number prints one zero.
Fmt1(p) == ToString(p) \o ".0"

\* Defaults of diskcheck.New
DefaultPaths == <<"/">>
DefaultWarnThreshold == 80
DefaultFailThreshold == 90

\* What FileSystemStater.Statfs answers for one path.
StatErr(e) == [err |-> e, UsedPct |-> 0, AvailPct |-> 0]

DiskInfo(used) == [err |-> "", UsedPct |-> used, AvailPct |-> 100 - used]

\* checkPath with thresholds that are reached only when exceeded.
checkPathExclusive(path, stater, warnThreshold, failThreshold) ==
    LET diskInfo == stater[path]
    IN IF diskInfo.err /= ""
       THEN Result(StatusFail, "failed to get disk stats for " \o path \o ": " \o diskInfo.err)
       ELSE IF diskInfo.UsedPct > failThreshold
            THEN Result(StatusFail, "disk usage critical on " \o path)
            ELSE IF diskInfo.UsedPct > warnThreshold
                 THEN Result(StatusWarn, "disk usage high on " \o path)
                 ELSE Result(StatusPass, "disk usage normal on " \o path)

\* diskcheck.Check.checkPath
checkPath(path, stater, warnThreshold, failThreshold) ==
    LET diskInfo == stater[path]
    IN IF diskInfo.err /= ""
       THEN Result(StatusFail,
                   "failed to get disk stats for " \o path \o ": " \o diskInfo.err)
       ELSE IF diskInfo.UsedPct >= failThreshold
            THEN Result(StatusFail,
                        "disk usage critical on " \o path \o ": " \o Fmt1(diskInfo.UsedPct)
                        \o "% used (threshold: " \o Fmt1(failThreshold) \o "%)")
            ELSE IF diskInfo.UsedPct >= warnThreshold
                 THEN Result(StatusWarn,
                             "disk usage high on " \o path \o ": " \o Fmt1(diskInfo.UsedPct)
                             \o "% used (threshold: " \o Fmt1(warnThreshold) \o "%)")
                 ELSE Result(StatusPass,
                             "disk usage normal on " \o path \o ": " \o Fmt1(diskInfo.UsedPct)
                             \o "% used (" \o Fmt1(diskInfo.AvailPct) \o "% available)")

\* diskcheck.Check.Run: one result per path, in the order of c.paths
DiskRun(paths, stater, warnThreshold, failThreshold) ==
    Ran([j \in 1..Len(paths) |-> checkPath(paths[j], stater, warnThreshold, failThreshold)],
        [j \in 1..Len(paths) |-> "Statfs"])

PathNames == {"/", "/data"}

\* The path lists of the disk checks: the default, and what WithPaths sets
\* (WithPaths() with no argument leaves no path; no path is listed twice).
PathLists ==
    {DefaultPaths}
    \cup {q \in SeqsUpTo(PathNames, MaxPaths) :
             Len(q) /= 1 /\ \A a, b \in 1..Len(q) : a /= b => q[a] /= q[b]}

Staters ==
    {[p \in PathNames |-> DiskInfo(50)],
     [p \in PathNames |-> DiskInfo(DefaultWarnThreshold)],
     [p \in PathNames |-> IF p = "/" THEN DiskInfo(DefaultFailThreshold) ELSE DiskInfo(79)],
     [p \in PathNames |-> IF p = "/" THEN DiskInfo(50) ELSE StatErr("no such file or directory")]}

\* A built-in check as the registry holds it: its name, its configuration,
\* and what its Run returns and calls.
Builtin(kind, nm, cfg, r) ==
    [name |-> nm, out |-> r.out, mode |-> "returns",
     kind |-> kind, cfg |-> cfg, calls |-> r.calls]

RedisCheck(client) == Builtin("redis", "redis-check", [dep |-> client], RedisRun(client))

SqlCheck(db, query, expected) ==
    Builtin("sql", "sql-check", [dep |-> db, query |-> query, expected |-> expected],
            SqlRun(db, query, expected))

PingCheck(db) == Builtin("ping", "database:ping", [dep |-> db], PingRun(db))

DiskCheck(paths, stater) ==
    Builtin("disk", "disk-check", [paths |-> paths, stater |-> stater],
            DiskRun(paths, stater, DefaultWarnThreshold, DefaultFailThreshold))

DefaultQuery == "SELECT 1"

BuiltinSet ==
    {RedisCheck(c) : c \in {NilDep, Dep("", "", 1), Dep("connection refused", "", 1)}}
    \cup {SqlCheck(db, DefaultQuery, e) : db \in Deps, e \in {NoExpected, Expected(1)}}
    \cup {SqlCheck(db, "", NoExpected) : db \in {NilDep, Dep("", "", 1)}}
    \cup {PingCheck(db) : db \in {NilDep, Dep("", "", 1), Dep("connection refused", "", 1)}}
    \cup {DiskCheck(p, s) : p \in PathLists, s \in Staters}

BuiltinNext ==
    \/ \E c \in BuiltinSet : AddCheck(c)
    \/ Execute
    \/ Spawn
    \/ StartCollect
    \/ \E w \in WorkerIds : RunCall(w)
    \/ \E w \in WorkerIds : RunReturn(w)
    \/ \E w \in WorkerIds : Send(w)
    \/ Collect
    \/ Finish
    \/ Return

BuiltinSpec == Init /\ [][BuiltinNext]_vars

\* ------------------------------------------------ NewHealthCheck and options
\* The struct NewHealthCheck builds, before it applies its options: an empty
\* registry and zero-valued metadata.
NewHealthCheck ==
    /\ Checks = <<>>
    /\ pc = "new"
    /\ cancelled = FALSE
    /\ rng = <<>>
    /\ i = 1
    /\ cap = 0
    /\ workers = <<>>
    /\ runs = <<>>
    /\ resultsChan = <<>>
    /\ need = 0
    /\ n = 0
    /\ results = NilMap
    /\ status = StatusPass
    /\ ret = NoReturn
    /\ meta = NoMeta
    /\ resp = NoResp
    /\ prev = NoPrev
    /\ probe = NoProbe
    /\ health = NewHealth
    /\ frames = NoFrames

ServiceIDs == {"test-service", "other-service"}
Descriptions == {"A test service"}
Versions == {"v1.0.0"}
ReleaseIDs == {"release-1"}

WithServiceID(id) ==
    /\ pc = "new"
    /\ meta' = [meta EXCEPT !.ServiceID = id]
    /\ UNCHANGED <<Checks, pc, locals, resp, prev, apart>>

WithDescription(desc) ==
    /\ pc = "new"
    /\ meta' = [meta EXCEPT !.Description = desc]
    /\ UNCHANGED <<Checks, pc, locals, resp, prev, apart>>

WithVersion(version) ==
    /\ pc = "new"
    /\ meta' = [meta EXCEPT !.Version = version]
    /\ UNCHANGED <<Checks, pc, locals, resp, prev, apart>>

WithReleaseID(id) ==
    /\ pc = "new"
    /\ meta' = [meta EXCEPT !.ReleaseID = id]
    /\ UNCHANGED <<Checks, pc, locals, resp, prev, apart>>

\* WithCheck that skips a check whose name is already registered.
WithCheckUnique(check) ==
    /\ pc = "new"
    /\ Len(Checks) < MaxChecks
    /\ \A k \in 1..Len(Checks) : Checks[k].name /= check.name
    /\ Checks' = Append(Checks, check)
    /\ UNCHANGED <<pc, locals, ext>>

WithCheck(check) ==
    /\ pc = "new"
    /\ Len(Checks) < MaxChecks
    /\ Checks' = Append(Checks, check)
    /\ UNCHANGED <<pc, locals, ext>>

\* NewHealthCheck returns the struct once every option is applied.
NewReturn ==
    /\ pc = "new"
    /\ pc' = "idle"
    /\ UNCHANGED <<Checks, locals, ext>>

NewNext ==
    \/ \E id \in ServiceIDs : WithServiceID(id)
    \/ \E desc \in Descriptions : WithDescription(desc)
    \/ \E version \in Versions : WithVersion(version)
    \/ \E id \in ReleaseIDs : WithReleaseID(id)
    \/ \E c \in SmallCheckSet : WithCheck(c)
    \/ NewReturn
    \/ \E c \in SmallCheckSet : AddCheck(c)

NewSpec == NewHealthCheck /\ [][NewNext]_vars

\* ------------------------------------------------- checks run on their own
\* Everything but probe.
notProbe == <<Checks, pc, locals, meta, resp, prev, health, frames>>

UsageLevels == {0, 50, 69, 70, 71, 79, 80, 81, 89, 90, 91, 100}

DiskThresholds == {70, 80, 90}

DiskInfos == {StatErr("no such file or directory")} \cup {DiskInfo(u) : u \in UsageLevels}

\* diskcheck.New(WithWarnThreshold(w), WithFailThreshold(f), WithFileSystemStater(..)).Run
RunDisk(info, w, f) ==
    /\ probe = NoProbe
    /\ probe' = [kind |-> "disk",
                 cfg |-> [info |-> info, warnThreshold |-> w, failThreshold |-> f],
                 out |-> DiskRun(DefaultPaths, [p \in PathNames |-> info], w, f).out]
    /\ UNCHANGED notProbe

\* --- connectionscheck
MaxConnections == 4     \* sql.DBStats.MaxOpenConnections

\* Thresholds are fractions of the maximum, held here in hundredths.
ConnThresholds == {50, 80, 90, 100}

\* int(float64(maxConnections) * threshold): the product, truncated.
ThresholdConnections(maxConnections, threshold) == (maxConnections * threshold) \div 100

Stats(open, max) == [nil |-> FALSE, OpenConnections |-> open, MaxOpenConnections |-> max]

\* connectionscheck.ConnectionsCheck.Run
ConnectionsRun(db, ctxDone, warnThreshold, failThreshold) ==
    IF db.nil
    THEN Ran(<<Result(StatusFail, "database connection is required")>>, <<>>)
    ELSE IF ctxDone
         THEN Ran(<<Result(StatusFail, "connections check timeout")>>, <<>>)
         ELSE LET openConnections == db.OpenConnections
                  maxConnections == db.MaxOpenConnections
                  failThresholdConnections == ThresholdConnections(maxConnections, failThreshold)
                  warnThresholdConnections == ThresholdConnections(maxConnections, warnThreshold)
              IN IF maxConnections <= 0
                 THEN Ran(<<Result(StatusPass, "")>>, <<"Stats">>)
                 ELSE IF openConnections >= failThresholdConnections
                      THEN Ran(<<Result(StatusFail,
                                        "open connections (" \o ToString(openConnections)
                                        \o ") exceed failure threshold ("
                                        \o ToString(failThresholdConnections) \o ")")>>,
                               <<"Stats">>)
                      ELSE IF openConnections >= warnThresholdConnections
                           THEN Ran(<<Result(StatusWarn,
                                             "open connections (" \o ToString(openConnections)
                                             \o ") approaching maximum ("
                                             \o ToString(maxConnections) \o ")")>>,
                                    <<"Stats">>)
                           ELSE Ran(<<Result(StatusPass,
                                             "open connections: " \o ToString(openConnections)
                                             \o "/" \o ToString(maxConnections))>>,
                                    <<"Stats">>)

StatsProviders ==
    {NilDep} \cup {Stats(o, m) : o \in 0..(MaxConnections + 1), m \in 0..MaxConnections}

RunConnections(db, ctxDone, w, f) ==
    /\ probe = NoProbe
    /\ probe' = [kind |-> "connections",
                 cfg |-> [db |-> db, ctxDone |-> ctxDone,
                          warnThreshold |-> w, failThreshold |-> f],
                 out |-> ConnectionsRun(db, ctxDone, w, f).out]
    /\ UNCHANGED notProbe

\* --- tcpcheck
MaxPort == 65535

Hosts == {"", "localhost"}

Ports == {-1, 0, 1, 8080, MaxPort, MaxPort + 1, 70000}

\* What Dialer.DialContext and then conn.Close answer ("" for a nil error).
Dial(err, closeErr) == [err |-> err, closeErr |-> closeErr]

Dialers == {Dial("", ""), Dial("connection refused", ""), Dial("", "already closed")}

\* What the dialer does once Run reaches it.
Connect(host, port, network, dialer) ==
    LET address == host \o ":" \o ToString(port)
    IN IF dialer.err /= ""
       THEN Ran(<<Result(StatusFail,
                         "failed to connect to " \o network \o "://" \o address
                         \o ": " \o dialer.err)>>,
                <<"DialContext">>)
       ELSE IF dialer.closeErr /= ""
            THEN Ran(<<Result(StatusPass,
                              "connection successful but failed to close: "
                              \o dialer.closeErr)>>,
                     <<"DialContext", "Close">>)
            ELSE Ran(<<Result(StatusPass, "")>>, <<"DialContext", "Close">>)

InvalidPort(port) ==
    Ran(<<Result(StatusFail, "invalid port: " \o ToString(port) \o " (must be 1-65535)")>>, <<>>)

\* tcpcheck Run with the port validated before the host.
TcpRunPortFirst(host, port, network, dialer) ==
    IF port <= 0 \/ port > MaxPort
    THEN InvalidPort(port)
    ELSE IF host = ""
         THEN Ran(<<Result(StatusFail, "host is required")>>, <<>>)
         ELSE Connect(host, port, network, dialer)

\* tcpcheck.Check.Run
TcpRun(host, port, network, dialer) ==
    IF host = ""
    THEN Ran(<<Result(StatusFail, "host is required")>>, <<>>)
    ELSE IF port <= 0 \/ port > MaxPort
         THEN InvalidPort(port)
         ELSE Connect(host, port, network, dialer)

RunTcp(host, port, network, dialer) ==
    /\ probe = NoProbe
    /\ probe' = [kind |-> "tcp",
                 cfg |-> [host |-> host, port |-> port, network |-> network,
                          dialer |-> dialer],
                 out |-> TcpRun(host, port, network, dialer).out,
                 calls |-> TcpRun(host, port, network, dialer).calls]
    /\ UNCHANGED notProbe

\* --- URLChecker of the first API
NoResponse == [nil |-> TRUE]

Response(code) == [nil |-> FALSE, StatusCode |-> code]

\* What http.Client.Head hands back: a response and no error, no response and
\* an error, or (a failed redirect) both.
HeadResults ==
    {[resp |-> Response(code), err |-> ""] : code \in {200, 204, 301, 404, 500}}
    \cup {[resp |-> NoResponse, err |-> e] : e \in {"dial tcp: connection refused", "timeout"}}
    \cup {[resp |-> Response(code), err |-> "stopped after 10 redirects"] : code \in {200, 302}}

Components == {"serviceA", "serviceB"}

\* A nil pointer dereference: the goroutine panics and nothing is returned.
Panicked == [panicked |-> TRUE]

Returns(m) == [panicked |-> FALSE, Checks |-> m]

\* URLChecker.Execute
URLCheckerExecute(component, head) ==
    LET checkName == component \o ":http"
        afterErr == IF head.err /= ""
                    THEN [status |-> StatusFail, output |-> "HTTP Request error" \o head.err]
                    ELSE [status |-> StatusPass, output |-> ""]
    IN IF head.resp.nil
       THEN Panicked
       ELSE LET afterCode ==
                    IF head.resp.StatusCode /= StatusOK
                    THEN [status |-> StatusFail,
                          output |-> "Unexcepted Status Code. Endpoint returned with status "
                                     \o ToString(head.resp.StatusCode)]
                    ELSE afterErr
            IN Returns([k \in {checkName} |->
                          <<[ComponentID |-> component,
                             Status |-> afterCode.status, Output |-> afterCode.output]>>])

RunURL(component, head) ==
    /\ probe = NoProbe
    /\ probe' = [kind |-> "url", cfg |-> [Component |-> component, head |-> head],
                 res |-> URLCheckerExecute(component, head)]
    /\ UNCHANGED notProbe

\* --- the two reductions
\* The inner loop of getGlobalStatus, stopping at the first warn as well.
ScanChecksStopAtWarn(checks, globalStatus) ==
    IF checks = <<>>
    THEN [returned |-> FALSE, globalStatus |-> globalStatus]
    ELSE IF Head(checks).Status = StatusWarn
         THEN [returned |-> TRUE, globalStatus |-> StatusWarn]
         ELSE [returned |-> Head(checks).Status = StatusFail,
               globalStatus |-> IF Head(checks).Status = StatusFail
                                THEN StatusFail ELSE globalStatus]

\* The inner loop of Health.getGlobalStatus over the checks of one key: whether
\* it returned (at a fail), and globalStatus.
RECURSIVE ScanChecks(_, _)
ScanChecks(checks, globalStatus) ==
    IF checks = <<>>
    THEN [returned |-> FALSE, globalStatus |-> globalStatus]
    ELSE LET check == Head(checks)
             g == IF check.Status = StatusWarn THEN StatusWarn ELSE globalStatus
         IN IF check.Status = StatusFail
            THEN [returned |-> TRUE, globalStatus |-> StatusFail]
            ELSE ScanChecks(Tail(checks), g)

\* The outer loop of Health.getGlobalStatus; order is the order in which the
\* range over the map h.Checks yields its keys.
RECURSIVE ScanKeys(_, _, _)
ScanKeys(hChecks, order, globalStatus) ==
    IF order = <<>>
    THEN globalStatus
    ELSE LET r == ScanChecks(hChecks[Head(order)], globalStatus)
         IN IF r.returned THEN r.globalStatus
            ELSE ScanKeys(hChecks, Tail(order), r.globalStatus)

\* Health.getGlobalStatus
getGlobalStatus(hChecks, order) == ScanKeys(hChecks, order, StatusPass)

\* The reduction of Execute over the same outcomes, received in the same order.
RECURSIVE ExecuteStatus(_, _, _)
ExecuteStatus(hChecks, order, st) ==
    IF order = <<>>
    THEN st
    ELSE ExecuteStatus(hChecks, Tail(order), FoldStatus(st, hChecks[Head(order)]))

CheckMaps == UNION {[S -> ResultSeqs] : S \in SUBSET Names}

RunScan(hChecks, order) ==
    /\ probe = NoProbe
    /\ order \in KeyOrders(DOMAIN hChecks)
    /\ probe' = [kind |-> "scan", cfg |-> [Checks |-> hChecks, order |-> order],
                 early |-> getGlobalStatus(hChecks, order),
                 full |-> ExecuteStatus(hChecks, order, NewStatus(NoPrev))]
    /\ UNCHANGED notProbe

\* The result has been looked at; the next check can be run.
Discard ==
    /\ probe /= NoProbe
    /\ probe' = NoProbe
    /\ UNCHANGED notProbe

ProbeNext ==
    \/ Discard
    \/ \E info \in DiskInfos : \E w, f \in DiskThresholds : RunDisk(info, w, f)
    \/ \E db \in StatsProviders : \E ctxDone \in BOOLEAN : \E w, f \in ConnThresholds :
          RunConnections(db, ctxDone, w, f)
    \/ \E host \in Hosts : \E port \in Ports : \E network \in {"tcp", "udp"} :
          \E dialer \in Dialers : RunTcp(host, port, network, dialer)
    \/ \E component \in Components : \E head \in HeadResults : RunURL(component, head)
    \/ \E hChecks \in CheckMaps : \E order \in KeyOrders(DOMAIN hChecks) : RunScan(hChecks, order)

ProbeSpec == Init /\ [][ProbeNext]_vars

\* ------------------------------------------------------- Health of the first API
MaxProviders == 2   \* registered check providers
MaxGets == 2        \* calls of Get

notHealth == <<Checks, pc, locals, meta, resp, prev, probe, frames>>

\* A provider reporting one check under its name (checks.DummyCheck does, under
\* "dummy"), with the status it observes at present.
Provider(nm, st) == [name |-> nm, status |-> st]

Providers == {Provider(nm, st) : nm \in Names, st \in Statuses}

\* CheckProvider.Execute
ProviderExecute(p) == [k \in {p.name} |-> <<[Status |-> p.status]>>]

AddCheckProvider(check) ==
    /\ Len(health.checkProviders) < MaxProviders
    /\ health' = [health EXCEPT !.checkProviders = Append(@, check)]
    /\ UNCHANGED notHealth

\* What provider k observes changes: its next Execute reports status st.
Observe(k, st) ==
    /\ k \in 1..Len(health.checkProviders)
    /\ st /= health.checkProviders[k].status
    /\ health' = [health EXCEPT !.checkProviders[k].status = st]
    /\ UNCHANGED notHealth

\* mergo.Merge(&dst, src) on two maps, without the override option: every key
\* of src is copied unless dst holds a value for it that is not empty.
Merge(dst, src) ==
    [k \in DOMAIN dst \cup DOMAIN src |->
        IF k \in DOMAIN dst /\ (k \notin DOMAIN src \/ dst[k] /= <<>>)
        THEN dst[k]
        ELSE src[k]]

\* The loop of Health.Get over the providers from index j on.
RECURSIVE MergeProviders(_, _, _)
MergeProviders(hChecks, providers, j) ==
    IF j > Len(providers)
    THEN hChecks
    ELSE MergeProviders(Merge(hChecks, ProviderExecute(providers[j])), providers, j + 1)

\* Health.Get
Get(order) ==
    /\ health.gets < MaxGets
    /\ LET merged == MergeProviders(health.Checks, health.checkProviders, 1)
       IN /\ order \in KeyOrders(DOMAIN merged)
          /\ health' = [health EXCEPT
                           !.Checks = merged,
                           !.Status = getGlobalStatus(merged, order),
                           !.gets = @ + 1,
                           !.last = [j \in 1..Len(health.checkProviders) |->
                                        ProviderExecute(health.checkProviders[j])]]
    /\ UNCHANGED notHealth

GetNext ==
    \/ \E p \in Providers : AddCheckProvider(p)
    \/ \E k \in 1..MaxProviders : \E st \in Statuses : Observe(k, st)
    \/ \E S \in SUBSET Names : \E order \in KeyOrders(S) : Get(order)

GetSpec == Init /\ [][GetNext]_vars

\* ------------------------------------------- AddCheck while a call is in flight
\* h.Checks = append(h.Checks, check) from another goroutine while Execute runs.
AddCheckInFlight(c) ==
    /\ pc \in {"spawn", "collect"}
    /\ Len(Checks) < MaxChecks
    /\ Checks' = Append(Checks, c)
    /\ UNCHANGED <<pc, locals, ext>>

\* The read of h.Checks by "for range h.Checks" races with that write: it
\* yields the new slice (StartCollect) or still the slice as it was when the
\* call started.
StartCollectStale ==
    /\ pc = "spawn"
    /\ i > Len(rng)
    /\ Checks /= rng
    /\ results' = MakeMap
    /\ status' = NewStatus(prev)
    /\ need' = LoopCount(rng)
    /\ n' = 0
    /\ pc' = "collect"
    /\ UNCHANGED <<Checks, cancelled, rng, i, cap, workers, runs, resultsChan, ret, ext>>

RaceNext ==
    \/ \E c \in SmallCheckSet : AddCheck(c)
    \/ \E c \in SmallCheckSet : AddCheckInFlight(c)
    \/ Execute
    \/ Spawn
    \/ StartCollect
    \/ StartCollectStale
    \/ \E w \in WorkerIds : RunCall(w)
    \/ \E w \in WorkerIds : RunReturn(w)
    \/ \E w \in WorkerIds : Send(w)
    \/ Collect
    \/ Finish
    \/ Return

RaceSpec == Init /\ [][RaceNext]_vars

\* --------------------------------------------------- overlapping Execute calls
MaxCalls == 2       \* Execute calls in flight at once

notFrames == <<Checks, pc, locals, meta, resp, prev, probe, health>>

\* The locals of one Execute call; from lists, for each message received,
\* the call whose worker sent it.
IdleFrame ==
    [pc |-> "idle", rng |-> <<>>, i |-> 1, cap |-> 0, workers |-> <<>>,
     resultsChan |-> <<>>, need |-> 0, n |-> 0, results |-> NilMap,
     status |-> StatusPass, from |-> <<>>, ret |-> NoReturn]

Put(c, f) == IF c > Len(frames) THEN Append(frames, f) ELSE [frames EXCEPT ![c] = f]

InFlight(c) == c \in 1..Len(frames) /\ frames[c].pc /= "idle"

ConcCheckSet ==
    {Check("a", <<Result(StatusPass, "")>>, "returns"),
     Check("a", <<Result(StatusFail, "down")>>, "returns"),
     Check("b", <<Result(StatusWarn, "high"), Result(StatusPass, "")>>, "returns")}

\* AddCheck while no call is in flight.
Register(check) ==
    /\ \A c \in 1..Len(frames) : ~InFlight(c)
    /\ Len(Checks) < MaxChecks
    /\ Checks' = Append(Checks, check)
    /\ UNCHANGED <<pc, locals, ext>>

\* Call c enters Execute: resultsChan := make(chan resultCollector, len(h.Checks))
CallExecute(c) ==
    /\ c \in 1..MaxCalls
    /\ c <= Len(frames) + 1
    /\ ~InFlight(c)
    /\ frames' = Put(c, [IdleFrame EXCEPT !.pc = "spawn", !.cap = Len(Checks), !.rng = Checks])
    /\ UNCHANGED notFrames

CallSpawn(c) ==
    /\ InFlight(c)
    /\ LET f == frames[c]
       IN /\ f.pc = "spawn"
          /\ f.i <= Len(f.rng)
          /\ frames' = Put(c, [f EXCEPT !.workers = @ \o Spawned(f.rng[f.i], f.i),
                                        !.i = @ + 1])
    /\ UNCHANGED notFrames

CallStartCollect(c) ==
    /\ InFlight(c)
    /\ LET f == frames[c]
       IN /\ f.pc = "spawn"
          /\ f.i > Len(f.rng)
          /\ frames' = Put(c, [f EXCEPT !.results = MakeMap, !.status = NewStatus(prev),
                                        !.need = LoopCount(Checks), !.n = 0,
                                        !.pc = "collect"])
    /\ UNCHANGED notFrames

\* result := c.Run(ctx) in worker w of call c
CallRun(c, w) ==
    /\ InFlight(c)
    /\ LET f == frames[c]
       IN /\ f.pc \in {"spawn", "collect"}
          /\ w \in 1..Len(f.workers)
          /\ f.workers[w].st = "new"
          /\ frames' = Put(c, [f EXCEPT !.workers[w].st = AfterRun(f.workers[w].c)])
    /\ UNCHANGED notFrames

\* The channel worker w of call c sends on: the one its closure captured,
\* which is the channel the call made.
ChanOfShared(c) == 1

ChanOf(c) == c

\* resultsChan <- resultCollector{...} in worker w of call c
CallSend(c, w) ==
    /\ InFlight(c)
    /\ InFlight(ChanOf(c))
    /\ LET f == frames[c]
           t == ChanOf(c)
           msg == [name |-> f.workers[w].c.name, result |-> f.workers[w].c.out, by |-> c]
       IN /\ f.pc \in {"spawn", "collect"}
          /\ w \in 1..Len(f.workers)
          /\ f.workers[w].st = "ret"
          /\ Len(frames[t].resultsChan) < frames[t].cap
          /\ frames' = [k \in 1..Len(frames) |->
                          LET g == IF k = c THEN [f EXCEPT !.workers[w].st = "sent"]
                                   ELSE frames[k]
                          IN IF k = t THEN [g EXCEPT !.resultsChan = Append(@, msg)] ELSE g]
    /\ UNCHANGED notFrames

CallCollect(c) ==
    /\ InFlight(c)
    /\ LET f == frames[c]
       IN /\ f.pc = "collect"
          /\ f.n < f.need
          /\ f.resultsChan /= <<>>
          /\ LET cr == Head(f.resultsChan)
             IN frames' = Put(c, [f EXCEPT
                    !.results = MapSet(f.results, cr.name,
                                       AppendResults(MapGet(f.results, cr.name), cr.result)),
                    !.status = FoldStatus(f.status, cr.result),
                    !.resultsChan = Tail(@),
                    !.n = @ + 1,
                    !.from = Append(@, cr.by)])
    /\ UNCHANGED notFrames

CallFinish(c) ==
    /\ InFlight(c)
    /\ LET f == frames[c]
       IN /\ f.pc = "collect"
          /\ LoopDone(f.n, f.need, f.status)
          /\ frames' = Put(c, [f EXCEPT
                 !.ret = [returned |-> TRUE, Status |-> f.status, Checks |-> f.results],
                 !.pc = "done"])
    /\ UNCHANGED notFrames

CallReturn(c) ==
    /\ InFlight(c)
    /\ frames[c].pc = "done"
    /\ frames' = Put(c, IdleFrame)
    /\ UNCHANGED notFrames

CallIds == 1..MaxCalls

ConcNext ==
    \/ \E check \in ConcCheckSet : Register(check)
    \/ \E c \in CallIds : CallExecute(c)
    \/ \E c \in CallIds : CallSpawn(c)
    \/ \E c \in CallIds : CallStartCollect(c)
    \/ \E c \in CallIds : \E w \in WorkerIds : CallRun(c, w)
    \/ \E c \in CallIds : \E w \in WorkerIds : CallSend(c, w)
    \/ \E c \in CallIds : CallCollect(c)
    \/ \E c \in CallIds : CallFinish(c)
    \/ \E c \in CallIds : CallReturn(c)

ConcSpec == Init /\ [][ConcNext]_vars

\* Scheduling of the Go runtime: a goroutine that can take a step takes it.
Fairness ==
    /\ WF_vars(Spawn)
    /\ WF_vars(StartCollect)
    /\ \A w \in WorkerIds : WF_vars(RunCall(w))
    /\ \A w \in WorkerIds : WF_vars(RunReturn(w))
    /\ \A w \in WorkerIds : WF_vars(Send(w))
    /\ WF_vars(Collect)
    /\ WF_vars(Finish)

FairSpec == Spec /\ Fairness

\* ------------------------------------------------------------- properties
\* The results the Runs of this call have returned so far.
Returned == {w \in 1..Len(workers) : workers[w].st \in {"ret", "sent"}}

HasStatus(rs, s) == \E j \in 1..Len(rs) : rs[j].Status = s

SomeReturned(s) == \E w \in Returned : HasStatus(workers[w].c.out, s)

RegisteredNames == {Checks[k].name : k \in 1..Len(Checks)}

\* C1 (absorption): when Execute has returned and some Run of the call
\* returned a result with status fail, the returned overall status is fail.
Absorption ==
    ret.returned => (SomeReturned(StatusFail) => ret.Status = StatusFail)

AbsorptionWitness ==
    /\ ret.returned
    /\ SomeReturned(StatusFail)
    /\ SomeReturned(StatusWarn)
    /\ SomeReturned(StatusPass)
    /\ ret.Status = StatusFail

\* C2 (stickiness): when Execute has returned, no Run returned a fail and some
\* Run returned a warn, the returned overall status is warn.
Stickiness ==
    ret.returned =>
        (~SomeReturned(StatusFail) /\ SomeReturned(StatusWarn) => ret.Status = StatusWarn)

StickinessWitness ==
    /\ ret.returned
    /\ ~SomeReturned(StatusFail)
    /\ Len(workers) = MaxChecks
    /\ HasStatus(workers[1].c.out, StatusWarn)
    /\ \E w \in 2..Len(workers) :
          workers[w].c.out /= <<>> /\ ~HasStatus(workers[w].c.out, StatusWarn)
    /\ ret.Status = StatusWarn

\* C3 (neutrality): when Execute has returned for a non-empty registry and
\* every returned result has status pass, the returned overall status is pass.
Neutrality ==
    ret.returned /\ Len(Checks) > 0 =>
        (~SomeReturned(StatusFail) /\ ~SomeReturned(StatusWarn) => ret.Status = StatusPass)

NeutralityWitness ==
    /\ ret.returned
    /\ Len(Checks) = MaxChecks
    /\ \A w \in 1..Len(workers) :
          workers[w].c.out /= <<>> /\ \A j \in 1..Len(workers[w].c.out) :
              workers[w].c.out[j].Status = StatusPass
    /\ ret.Status = StatusPass

\* C4 (identity): with an empty registry a call starts no goroutine, performs
\* no receive, and returns status pass with an empty map that is not nil.
Identity ==
    pc /= "idle" /\ Len(Checks) = 0 =>
        /\ workers = <<>>
        /\ n = 0
        /\ (pc = "collect" => need = 0)
        /\ (ret.returned =>
               /\ ret.Status = StatusPass
               /\ ~ret.Checks.nil
               /\ DOMAIN ret.Checks.m = {})

IdentityWitness ==
    /\ ret.returned
    /\ Len(Checks) = 0
    /\ ret.Status = StatusPass
    /\ ret.Checks = MakeMap

\* C5 (completeness): when Execute has returned, the keys of the returned map
\* are exactly the registered names and every key holds a nonempty sequence.
Completeness ==
    ret.returned =>
        /\ DOMAIN ret.Checks.m = RegisteredNames
        /\ \A k \in DOMAIN ret.Checks.m : ret.Checks.m[k] /= <<>>

\* C6 (order preservation): when Execute has returned, a check whose name no
\* other registered check carries has exactly its Run's results, in the order
\* Run returned them, under its name.
UniqueName(k) == \A k2 \in 1..Len(Checks) : k2 /= k => Checks[k2].name /= Checks[k].name

OrderPreservation ==
    ret.returned =>
        \A k \in 1..Len(Checks) :
            UniqueName(k) =>
                /\ Checks[k].name \in DOMAIN ret.Checks.m
                /\ ret.Checks.m[Checks[k].name] = Checks[k].out

OrderPreservationWitness ==
    /\ ret.returned
    /\ Len(Checks) = MaxChecks
    /\ \E k \in 1..Len(Checks) :
          /\ UniqueName(k)
          /\ Len(Checks[k].out) > 1
          /\ Checks[k].out[1] /= Checks[k].out[Len(Checks[k].out)]
          /\ ret.Checks.m[Checks[k].name] = Checks[k].out

\* C7 (fan-in barrier): when Execute has returned, every registered check has
\* a goroutine whose Run returned and whose message was received, also when a
\* fail was collected early or ctx was cancelled in flight.
FanInBarrier ==
    ret.returned =>
        /\ Len(workers) = Len(Checks)
        /\ \A w \in 1..Len(workers) : workers[w].st = "sent"
        /\ n = Len(workers)
        /\ resultsChan = <<>>

FanInBarrierWitness ==
    /\ ret.returned
    /\ cancelled
    /\ Len(workers) = MaxChecks
    /\ ret.Status = StatusFail
    /\ workers[1].c.mode = "returns"
    /\ HasStatus(workers[1].c.out, StatusFail)
    /\ workers[Len(workers)].c.mode = "waits"
    /\ \A w \in 1..Len(workers) : workers[w].st = "sent"

\* C8 (panic isolation): a panic of one Run does not end the call, and the
\* returned map holds a fail result under the name of the check that panicked.
PanicIsolation ==
    \A w \in 1..Len(workers) :
        workers[w].st = "panic" =>
            /\ pc /= "crashed"
            /\ (ret.returned =>
                   /\ workers[w].c.name \in DOMAIN ret.Checks.m
                   /\ HasStatus(ret.Checks.m[workers[w].c.name], StatusFail))

\* C9 (totality): a call over checks whose Run returns leads to the return of
\* Execute.
AllRunsReturn == \A k \in 1..Len(Checks) : Checks[k].mode = "returns"

Totality == (pc = "spawn" /\ AllRunsReturn) ~> ret.returned

TotalityWitness ==
    /\ ret.returned
    /\ AllRunsReturn
    /\ Len(Checks) = MaxChecks
    /\ RegisteredNames = Names

\* C10 (no retries): within a call Run is invoked at most once per registry
\* entry, and exactly once when Execute has returned, whatever it reported.
NoRetries ==
    \A k \in DOMAIN runs :
        /\ runs[k] <= 1
        /\ (ret.returned => runs[k] = 1)

NoRetriesWitness ==
    /\ ret.returned
    /\ Len(Checks) = MaxChecks
    /\ \A k \in 1..Len(Checks) : HasStatus(Checks[k].out, StatusFail) /\ runs[k] = 1

\* The results of the Runs of this call filed under one name, counted.
RECURSIVE SumLen(_, _)
SumLen(nm, w) ==
    IF w = 0 THEN 0
    ELSE SumLen(nm, w - 1) + (IF workers[w].c.name = nm THEN Len(workers[w].c.out) ELSE 0)

\* The priority reduction fail > warn > pass over the Runs of this call.
ReductionOfThisCall ==
    IF \E w \in 1..Len(workers) : HasStatus(workers[w].c.out, StatusFail) THEN StatusFail
    ELSE IF \E w \in 1..Len(workers) : HasStatus(workers[w].c.out, StatusWarn) THEN StatusWarn
    ELSE StatusPass

\* C11 (fresh result per call): in a sequence of calls, the status a call
\* returns is the reduction of the results of that call's Runs only, and the
\* returned map holds under each name as many results as that call's Runs
\* returned under it, whatever the call before returned.
FreshResult ==
    ret.returned =>
        /\ ret.Status = ReductionOfThisCall
        /\ DOMAIN ret.Checks.m = {workers[w].c.name : w \in 1..Len(workers)}
        /\ \A nm \in DOMAIN ret.Checks.m : Len(ret.Checks.m[nm]) = SumLen(nm, Len(workers))

FreshResultWitness ==
    /\ ret.returned
    /\ prev.returned
    /\ prev.Status = StatusFail
    /\ Len(workers) = MaxChecks
    /\ ret.Status = StatusPass

\* C12 (status validation): when Execute has returned, no result whose status
\* is none of pass, warn, fail is filed in the returned map, and a call whose
\* Runs returned only such results does not come back with overall pass.
InvalidStatus(r) == r.Status \notin Statuses

StatusValidation ==
    ret.returned =>
        /\ \A nm \in DOMAIN ret.Checks.m :
              \A j \in 1..Len(ret.Checks.m[nm]) : ~InvalidStatus(ret.Checks.m[nm][j])
        /\ (/\ workers /= <<>>
            /\ \A w \in 1..Len(workers) :
                  \A j \in 1..Len(workers[w].c.out) : InvalidStatus(workers[w].c.out[j]))
           => ret.Status /= StatusPass

\* How often r occurs in a sequence of results.
Count(r, rs) == Cardinality({j \in 1..Len(rs) : rs[j] = r})

\* How often the Runs of this call returned r under the name nm.
RECURSIVE CountReturned(_, _, _)
CountReturned(nm, r, w) ==
    IF w = 0 THEN 0
    ELSE CountReturned(nm, r, w - 1)
         + (IF workers[w].c.name = nm THEN Count(r, workers[w].c.out) ELSE 0)

\* C13 (outcome immutability): when Execute has returned, every result occurs
\* under every name in the returned map exactly as often as the Runs of this
\* call returned it under that name, all fields equal: none altered, dropped
\* or invented.
OutcomeImmutability ==
    ret.returned =>
        \A nm \in Names \cup DOMAIN ret.Checks.m :
            LET filed == MapGet(ret.Checks, nm)
            IN \A r \in Results \cup {filed[j] : j \in 1..Len(filed)} :
                   Count(r, filed) = CountReturned(nm, r, Len(workers))

OutcomeImmutabilityWitness ==
    /\ ret.returned
    /\ Len(workers) = MaxChecks
    /\ \E nm \in DOMAIN ret.Checks.m :
          /\ Count(Result(StatusFail, "down"), ret.Checks.m[nm]) = 1
          /\ Count(Result(StatusWarn, "high"), ret.Checks.m[nm]) = 1
          /\ Len(ret.Checks.m[nm]) = MaxChecks + 1

\* Exactly the registry entries k1 and k2 carry the name of k1.
OnlyPair(k1, k2) ==
    /\ k1 /= k2
    /\ Checks[k1].name = Checks[k2].name
    /\ \A k3 \in 1..Len(Checks) : Checks[k3].name = Checks[k1].name => k3 \in {k1, k2}

\* When Execute has returned, a name shared by two checks holds the results of
\* both, as two whole blocks in either order.
DupBlocks ==
    ret.returned =>
        /\ \A nm \in DOMAIN ret.Checks.m : Len(ret.Checks.m[nm]) = SumLen(nm, Len(workers))
        /\ \A k1, k2 \in 1..Len(Checks) :
              OnlyPair(k1, k2) =>
                  /\ Checks[k1].name \in DOMAIN ret.Checks.m
                  /\ ret.Checks.m[Checks[k1].name] \in
                        {Checks[k1].out \o Checks[k2].out, Checks[k2].out \o Checks[k1].out}

\* Every receive puts the received block, in the order Run returned it, behind
\* all that was received under its name before.
DupStep ==
    pc = "collect" /\ n' = n + 1 =>
        results'.m[Head(resultsChan).name] =
            MapGet(results, Head(resultsChan).name) \o Head(resultsChan).result

\* C14 (duplicate names): two checks with one name have all their results
\* under that name, each check's results as one contiguous block in the order
\* of its Run, and the block received first comes first.
DuplicateNames == []DupBlocks /\ [][DupStep]_vars

DuplicateNamesWitness ==
    /\ ret.returned
    /\ Len(Checks) > 1
    /\ OnlyPair(1, Len(Checks))
    /\ Len(Checks[1].out) > 1
    /\ Len(Checks[Len(Checks)].out) > 1
    /\ Checks[1].out /= Checks[Len(Checks)].out
    /\ ret.Checks.m[Checks[1].name] = Checks[Len(Checks)].out \o Checks[1].out

\* Priority of a status in the reduction.
Rank(s) == IF s = StatusFail THEN 2 ELSE IF s = StatusWarn THEN 1 ELSE 0

\* The ranks of all results the registered checks return.
RanksOfRegistry ==
    {0} \cup UNION {{Rank(Checks[k].out[j].Status) : j \in 1..Len(Checks[k].out)} : k \in 1..Len(Checks)}

\* The one status the registry determines, whatever the order of completion.
StatusOfRegistry ==
    CHOOSE s \in Statuses : \A x \in RanksOfRegistry : Rank(s) >= x /\ Rank(s) \in RanksOfRegistry

AllUnique == \A k \in 1..Len(Checks) : UniqueName(k)

\* C15 (deterministic status): when Execute has returned, the overall status
\* is the one status the registered checks and their results determine, in
\* every order of completion and receipt; with unique names the returned map
\* is determined as well.
DeterministicStatus ==
    ret.returned =>
        /\ ret.Status = StatusOfRegistry
        /\ AllUnique =>
              ret.Checks.m = [nm \in RegisteredNames |->
                                 Checks[CHOOSE k \in 1..Len(Checks) : Checks[k].name = nm].out]

DeterministicStatusWitness ==
    /\ ret.returned
    /\ Len(Checks) = MaxChecks
    /\ AllUnique
    /\ Checks[1].out = <<Result(StatusFail, "down")>>
    /\ \A k \in 2..Len(Checks) : Checks[k].out = <<Result(StatusWarn, "high"), Result(StatusPass, "")>>
    /\ ret.Status = StatusFail

\* C16 (HTTP status mapping): a written response carries 503 exactly when the
\* overall status Execute returned is fail, and 200 for pass and for warn, in
\* HealthHandler and in Handler alike.
HttpStatusMapping ==
    resp.written =>
        /\ resp.code = StatusServiceUnavailable <=> ret.Status = StatusFail
        /\ resp.codePkg = StatusServiceUnavailable <=> ret.Status = StatusFail
        /\ ret.Status \in {StatusPass, StatusWarn} =>
              resp.code = StatusOK /\ resp.codePkg = StatusOK

HttpStatusMappingWitness ==
    /\ resp.written
    /\ ret.Status = StatusWarn
    /\ resp.code = StatusOK
    /\ Len(Checks) = MaxChecks

\* The segments the results filed under nm call for, in their order.
SegmentsFor(nm, rs) ==
    LET NonEmpty(r) == r.Output /= ""
        sel == SelectSeq(rs, NonEmpty)
    IN [j \in 1..Len(sel) |-> nm \o ": " \o sel[j].Output]

ToSet(q) == {q[j] : j \in 1..Len(q)}

RECURSIVE SumSegments(_)
SumSegments(S) ==
    IF S = {} THEN 0
    ELSE LET nm == CHOOSE x \in S : TRUE
         IN Len(SegmentsFor(nm, resp.Checks.m[nm])) + SumSegments(S \ {nm})

\* C17 (flattened output): the output of a written response consists of one
\* segment "<name>: <output>" per result with a non-empty output, the segments
\* of one name in the order of its results, and nothing else; it is empty
\* exactly when every output is empty.
FlattenedOutput ==
    resp.written =>
        /\ \A nm \in DOMAIN resp.Checks.m :
              LET mine == ToSet(SegmentsFor(nm, resp.Checks.m[nm]))
                  Mine(x) == x \in mine
              IN SelectSeq(resp.outputs, Mine) = SegmentsFor(nm, resp.Checks.m[nm])
        /\ Len(resp.outputs) = SumSegments(DOMAIN resp.Checks.m)
        /\ resp.Output = "" <=>
              \A nm \in DOMAIN resp.Checks.m :
                  \A j \in 1..Len(resp.Checks.m[nm]) : resp.Checks.m[nm][j].Output = ""

FlattenedOutputWitness ==
    /\ resp.written
    /\ Cardinality(DOMAIN resp.Checks.m) > 1
    /\ Len(resp.outputs) > 1
    /\ \E nm \in DOMAIN resp.Checks.m :
          /\ Len(resp.Checks.m[nm]) > 1
          /\ resp.Checks.m[nm][1].Output = ""
          /\ resp.outputs[Len(resp.outputs)] = nm \o ": high"

\* Substring test on strings (strings.Contains).
Contains(s, sub) ==
    \E k \in 1..(Len(s) - Len(sub) + 1) : SubSeq(s, k, k + Len(sub) - 1) = sub

DepMissing(c) == c.kind \in {"redis", "sql", "ping"} /\ c.cfg.dep.nil

\* C18: a built-in check whose dependency is nil returns from Run exactly one
\* result, with status fail and an output containing "required", and has made
\* no call on the dependency; an Execute over a registry holding such a check
\* returns the overall status fail.
MissingDependency ==
    /\ \A w \in Returned :
         DepMissing(workers[w].c) =>
            /\ Len(workers[w].c.out) = 1
            /\ workers[w].c.out[1].Status = StatusFail
            /\ Contains(workers[w].c.out[1].Output, "required")
            /\ workers[w].c.calls = <<>>
    /\ (ret.returned /\ \E k \in 1..Len(Checks) : DepMissing(Checks[k]))
          => ret.Status = StatusFail

MissingDependencyWitness ==
    /\ ret.returned
    /\ \E k \in 1..Len(Checks) : Checks[k].kind = "redis" /\ DepMissing(Checks[k])
    /\ \E k \in 1..Len(Checks) : Checks[k].kind \in {"sql", "ping"} /\ DepMissing(Checks[k])
    /\ ret.Status = StatusFail

\* C19: the Run of a disk check returns at least one result for every
\* configuration, a check configured through WithPaths with no path included.
ProbeResultsNeverEmpty ==
    \A w \in Returned :
        workers[w].c.kind = "disk" => Len(workers[w].c.out) >= 1

\* A step that registers check c, through the option or through AddCheck.
Registers(c) == WithCheck(c) \/ AddCheck(c)

\* Every check can be registered whatever names the registry holds already.
NoUniquenessCheck ==
    \A c \in SmallCheckSet :
        Len(Checks) < MaxChecks =>
            /\ pc = "new" => ENABLED WithCheck(c)
            /\ pc = "idle" => ENABLED AddCheck(c)

RegistrationStep ==
    /\ Checks' /= Checks =>
          /\ Len(Checks') = Len(Checks) + 1
          /\ SubSeq(Checks', 1, Len(Checks)) = Checks
          /\ meta' = meta
          /\ \E c \in SmallCheckSet : Registers(c)
    /\ \A c \in SmallCheckSet : Registers(c) => Checks' = Append(Checks, c)

\* C20: NewHealthCheck starts from an empty registry; the registry changes
\* only through WithCheck and AddCheck, each of which appends exactly the
\* given check at the end and leaves the checks already registered and the
\* service metadata unchanged; no registration is refused because of a name.
Registration ==
    /\ (NewHealthCheck => Checks = <<>>)
    /\ []NoUniquenessCheck
    /\ [][RegistrationStep]_vars

RegistrationWitness ==
    /\ pc = "idle"
    /\ Len(Checks) = 2
    /\ Checks[1].name = Checks[2].name
    /\ Checks[1] /= Checks[2]
    /\ meta.ServiceID = "other-service"
    /\ meta.Version = "v1.0.0"

\* C21: for one monitored path with used percentage u the result is fail iff
\* the stat call failed or u >= failThreshold, warn iff neither and
\* u >= warnThreshold, pass otherwise: both thresholds are inclusive and fail
\* takes precedence over warn.
DiskThresholdClassification ==
    probe.kind = "disk" =>
        LET st == probe.out[1].Status
            u == probe.cfg.info.UsedPct
            failed == probe.cfg.info.err /= ""
            crit == u >= probe.cfg.failThreshold
            high == u >= probe.cfg.warnThreshold
        IN /\ Len(probe.out) = 1
           /\ st = StatusFail <=> (failed \/ crit)
           /\ st = StatusWarn <=> (~failed /\ ~crit /\ high)
           /\ st = StatusPass <=> (~failed /\ ~crit /\ ~high)

DiskThresholdClassificationWitness ==
    /\ probe.kind = "disk"
    /\ probe.cfg.info.err = ""
    /\ probe.cfg.info.UsedPct = probe.cfg.failThreshold
    /\ probe.cfg.warnThreshold < probe.cfg.failThreshold
    /\ probe.out[1].Status = StatusFail

\* C22: with a maximum m > 0 of open connections, o connections open and
\* thresholds w <= f (fractions of m), the connections check returns fail iff
\* o >= f*m, warn iff w*m <= o < f*m and pass iff o < w*m.
ConnectionPoolThresholds ==
    (/\ probe.kind = "connections"
     /\ ~probe.cfg.db.nil
     /\ ~probe.cfg.ctxDone
     /\ probe.cfg.db.MaxOpenConnections > 0
     /\ probe.cfg.warnThreshold <= probe.cfg.failThreshold)
    => LET st == probe.out[1].Status
           o == 100 * probe.cfg.db.OpenConnections
           fm == probe.cfg.failThreshold * probe.cfg.db.MaxOpenConnections
           wm == probe.cfg.warnThreshold * probe.cfg.db.MaxOpenConnections
       IN /\ st = StatusFail <=> o >= fm
          /\ st = StatusWarn <=> (wm <= o /\ o < fm)
          /\ st = StatusPass <=> o < wm

\* C23: the Run of a tcp check returns fail and never calls the dialer when
\* the host is empty (output "host is required") or the port is outside
\* 1..65535 (output containing "invalid port"); the host is tested first.
TcpValidation ==
    probe.kind = "tcp" =>
        LET badHost == probe.cfg.host = ""
            badPort == probe.cfg.port \notin 1..65535
            r == probe.out[1]
        IN /\ (badHost \/ badPort) =>
                 (Len(probe.out) = 1 /\ r.Status = StatusFail /\ probe.calls = <<>>)
           /\ badHost => r.Output = "host is required"
           /\ (~badHost /\ badPort) => Contains(r.Output, "invalid port")

TcpValidationWitness ==
    /\ probe.kind = "tcp"
    /\ probe.cfg.host = ""
    /\ probe.cfg.port = 70000
    /\ probe.cfg.dialer.err = ""
    /\ probe.out[1].Output = "host is required"

\* C24: URLChecker.Execute returns a map with one check under
\* "<component>:http"; its status is pass only for a 200 response and fail
\* otherwise, and a HEAD request that errors without a response gives a fail
\* check, not a crash.
URLFailureReporting ==
    probe.kind = "url" =>
        /\ ~probe.res.panicked
        /\ DOMAIN probe.res.Checks = {probe.cfg.Component \o ":http"}
        /\ \A k \in DOMAIN probe.res.Checks :
              /\ Len(probe.res.Checks[k]) = 1
              /\ probe.res.Checks[k][1].Status \in {StatusPass, StatusFail}
              /\ probe.res.Checks[k][1].Status = StatusPass
                    => (~probe.cfg.head.resp.nil /\ probe.cfg.head.resp.StatusCode = 200)
              /\ probe.cfg.head.resp.nil => probe.res.Checks[k][1].Status = StatusFail

\* C27: for every collection of outcomes and every scan order, the reduction
\* that returns fail at the first fail outcome (getGlobalStatus) and the
\* reduction that scans every outcome (the loop of Execute) give the same
\* overall status.
EarlyExitEquivalence ==
    probe.kind = "scan" => probe.early = probe.full

EarlyExitEquivalenceWitness ==
    /\ probe.kind = "scan"
    /\ Len(probe.cfg.order) = 2
    /\ LET first == probe.cfg.Checks[probe.cfg.order[1]]
           second == probe.cfg.Checks[probe.cfg.order[2]]
       IN /\ Len(first) = 2 /\ first[1].Status = StatusFail /\ first[2].Status = StatusWarn
          /\ Len(second) = 1 /\ second[1].Status = StatusWarn
    /\ probe.early = StatusFail

\* The only provider reporting under its name.
OnlyProvider(k) ==
    \A k2 \in 1..Len(health.last) :
        k2 /= k => DOMAIN health.last[k2] /= DOMAIN health.last[k]

\* C30: what Get returns reflects what the providers reported in that call:
\* the checks stored under a provider's name are the ones its Execute just
\* returned, and the status is their reduction; entries stored by an earlier
\* Get neither survive nor decide the result.
RepeatedGet ==
    health.gets >= 1 =>
        /\ \A k \in 1..Len(health.last) :
              OnlyProvider(k) =>
                 \A nm \in DOMAIN health.last[k] : health.Checks[nm] = health.last[k][nm]
        /\ (\A k \in 1..Len(health.last) : OnlyProvider(k)) =>
              health.Status =
                 IF \E k \in 1..Len(health.last) : \E nm \in DOMAIN health.last[k] :
                       health.last[k][nm][1].Status = StatusFail
                 THEN StatusFail
                 ELSE IF \E k \in 1..Len(health.last) : \E nm \in DOMAIN health.last[k] :
                            health.last[k][nm][1].Status = StatusWarn
                      THEN StatusWarn
                      ELSE StatusPass

\* A worker whose Run has not returned.
Blocked(w) == workers[w].c.mode = "waits" /\ workers[w].st \in {"new", "run"}

\* Every check is started, every check that returns has sent its result, and
\* the collector has received everything sent.
SiblingsDelivered ==
    /\ Len(workers) = Len(Checks)
    /\ \A w \in 1..Len(workers) : workers[w].c.mode = "returns" => workers[w].st = "sent"
    /\ resultsChan = <<>>

NoCheckPanics == \A k \in 1..Len(Checks) : Checks[k].mode /= "panics"

\* C25: when the Run of one check blocks, every other registered check is
\* still started, runs to completion and hands its result to the collector;
\* a worker that has a result never finds the channel full; only the return
\* of Execute is held back.
SiblingsNotStalled ==
    /\ [](\A w \in 1..Len(workers) :
             /\ (pc \in {"spawn", "collect"} /\ workers[w].st = "ret") => Len(resultsChan) < cap
             /\ Blocked(w) => ~ret.returned)
    /\ (pc = "spawn" /\ NoCheckPanics) ~> SiblingsDelivered

SiblingsNotStalledWitness ==
    /\ pc = "collect"
    /\ ~cancelled
    /\ Len(workers) = 2
    /\ Blocked(1) /\ workers[1].st = "run"
    /\ workers[2].st = "sent"
    /\ resultsChan = <<>>
    /\ n = 1

\* The workers that have sent their result.
Sent == {w \in 1..Len(workers) : workers[w].st = "sent"}

SingleWriteStep ==
    \A w \in Sent : workers' = <<>> \/ (w \in 1..Len(workers') /\ workers'[w].st = "sent")

\* C26: every worker sends exactly one result: the results buffered and
\* received are as many as the workers that have sent, and a worker that has
\* sent never sends again; the buffer never exceeds its capacity, so a send
\* never blocks; when Execute returns it has received one result per check,
\* the channel is empty and every worker is through.
SingleWritePerWorker ==
    /\ [](/\ Len(resultsChan) <= cap
          /\ n + Len(resultsChan) = Cardinality(Sent)
          /\ \A w \in 1..Len(workers) : workers[w].st = "ret" => Len(resultsChan) < cap
          /\ ret.returned =>
                (/\ n = Len(Checks)
                 /\ cap = Len(Checks)
                 /\ resultsChan = <<>>
                 /\ Sent = 1..Len(Checks)))
    /\ [][SingleWriteStep]_vars

SingleWritePerWorkerWitness ==
    /\ ret.returned
    /\ Len(Checks) = 2
    /\ Sent = {1, 2}
    /\ n = 2
    /\ resultsChan = <<>>

\* C29: when AddCheck appends a check while an Execute call is in flight, the
\* number of results the call waits for equals the number of workers it
\* started, so the call neither waits for a result nobody sends nor leaves a
\* result uncollected.
RegistrationDuringExecution ==
    pc \in {"collect", "done"} => need = Len(workers)

\* The results of the registered checks named nm, in registry order.
RECURSIVE OutOfName(_, _)
OutOfName(nm, k) ==
    IF k = 0 THEN <<>>
    ELSE OutOfName(nm, k - 1) \o (IF Checks[k].name = nm THEN Checks[k].out ELSE <<>>)

RECURSIVE StatusOfChecks(_)
StatusOfChecks(k) ==
    IF k = 0 THEN StatusPass
    ELSE LET s == StatusOfChecks(k - 1)
         IN IF Rank(FoldStatus(StatusPass, Checks[k].out)) > Rank(s)
            THEN FoldStatus(StatusPass, Checks[k].out) ELSE s

\* C28: when Execute calls overlap, every message a call buffers or has
\* received was sent by one of its own workers, and a call that returns has
\* received exactly one message per worker it started; its result holds the
\* registered names with as many results as their checks returned, and its
\* status is the reduction of those results.
ConcurrentCallsIndependent ==
    \A c \in 1..Len(frames) :
        LET f == frames[c]
        IN /\ \A j \in 1..Len(f.resultsChan) : f.resultsChan[j].by = c
           /\ \A j \in 1..Len(f.from) : f.from[j] = c
           /\ f.ret.returned =>
                 /\ f.n = Len(f.workers)
                 /\ \A w \in 1..Len(f.workers) : f.workers[w].st = "sent"
                 /\ DOMAIN f.ret.Checks.m = RegisteredNames
                 /\ \A nm \in RegisteredNames :
                       Len(f.ret.Checks.m[nm]) = Len(OutOfName(nm, Len(Checks)))
                 /\ AllUnique =>
                       \A nm \in RegisteredNames : f.ret.Checks.m[nm] = OutOfName(nm, Len(Checks))
                 /\ f.ret.Status = StatusOfChecks(Len(Checks))

ConcurrentCallsIndependentWitness ==
    /\ Len(frames) = 2
    /\ Len(Checks) = 2
    /\ frames[1].ret.returned
    /\ frames[2].pc = "collect"
    /\ frames[2].n = 1
    /\ Len(frames[2].resultsChan) = 1
    /\ frames[1].from = <<1, 1>>

====
